---- MODULE Spec2Model ----
(***************************************************************************)
(* A model of job_bot.py: one process that loads the seen-set, runs the    *)
(* NHS and the HealthJobsUK extractors, notifies every new job over        *)
(* Telegram and saves the seen-set.  The web sites, the Telegram API and   *)
(* the file system are the environment: every response is a                *)
(* nondeterministic choice.                                                *)
(***************************************************************************)
EXTENDS Integers, Sequences, FiniteSets, TLC

\* ------------------------------------------------------------------ bounds
\* anchors a listing page shows at most
MaxLinks == 2
\* characters after "/job/UK/" in a HealthJobsUK link target (SpecHref)
MaxTail == 6
\* anchors over all three listing pages of a pinned fixture (SpecTwice)
MaxFixtureLinks == 2

\* ------------------------------------------------------- program constants
\* requests.get(..., timeout=20)
REQUEST_TIMEOUT == 20
\* len(NHS_SEARCH_URLS)
NumNhsUrls == 2

\* ------------------------------------------------------------ sequences
InSeq(x, s) == \E k \in 1..Len(s) : s[k] = x

NoDup(s) == \A k, l \in 1..Len(s) : s[k] = s[l] => k = l

SeqSet(s) == {s[k] : k \in 1..Len(s)}

IsPrefix(s, t) == Len(s) <= Len(t) /\ \A k \in 1..Len(s) : s[k] = t[k]

\* ------------------------------------------------- HealthJobsUK link targets
\* A link target is a sequence of characters.
Digits == {"1", "2"}

TailChars == {"-", "v", "1", "2"}

JobPrefix == <<"/", "j", "o", "b", "/", "U", "K", "/">>

\* href.startswith("/job/UK/")
StartsWithJobPrefix(h) == IsPrefix(JobPrefix, h)

\* the positions where the pattern -v\d+ matches
VMatchAt(h, p) ==
    /\ p + 2 <= Len(h)
    /\ h[p] = "-"
    /\ h[p + 1] = "v"
    /\ h[p + 2] \in Digits

\* the end of the greedy run of digits that starts at position p
RECURSIVE DigitRunEnd(_, _)
DigitRunEnd(h, p) ==
    IF p + 1 <= Len(h) /\ h[p + 1] \in Digits THEN DigitRunEnd(h, p + 1) ELSE p

\* the digits of the last -v<digits> of a link target, <<>> when it has none
VersionSuffix(h) ==
    LET ps == {p \in 1..Len(h) : VMatchAt(h, p)}
    IN  IF ps = {} THEN <<>>
        ELSE LET p == CHOOSE q \in ps : \A r \in ps : r <= q
             IN  SubSeq(h, p + 2, DigitRunEnd(h, p + 2))

\* re.search(r"-v(\d+)", href): group 1 of the leftmost match, <<>> for None
ReSearchV(h) ==
    LET ps == {p \in 1..Len(h) : VMatchAt(h, p)}
    IN  IF ps = {} THEN <<>>
        ELSE LET p == CHOOSE q \in ps : \A r \in ps : q <= r
             IN  SubSeq(h, p + 2, DigitRunEnd(h, p + 2))

\* job_id = m.group(1) if m else href
HjJobId(h) == IF ReSearchV(h) # <<>> THEN ReSearchV(h) ELSE h

\* -------------------------------------------------------- NHS link targets
\* The path marker counts as one character of a link target.
Marker == "/candidate/jobadvert/"

\* "/candidate/jobadvert/" in href
NhsHasMarker(h) == InSeq(Marker, h)

\* the end of the greedy run [^/?]+ that starts at position p
RECURSIVE SegRunEnd(_, _)
SegRunEnd(h, p) ==
    IF p + 1 <= Len(h) /\ h[p + 1] \notin {"/", "?", Marker}
    THEN SegRunEnd(h, p + 1) ELSE p

\* re.search(r"/candidate/jobadvert/([^/?]+)", href): group 1, <<>> for None
NhsReSearch(h) ==
    LET ps == {p \in 1..Len(h) :
                  /\ h[p] = Marker
                  /\ p + 1 <= Len(h)
                  /\ h[p + 1] \notin {"/", "?", Marker}}
    IN  IF ps = {} THEN <<>>
        ELSE LET p == CHOOSE q \in ps : \A r \in ps : q <= r
             IN  SubSeq(h, p + 1, SegRunEnd(h, p + 1))

\* ------------------------------------------------------------- the pages
\* An anchor is a link target and whether its text holds one of KEYWORDS.
NhsA == <<Marker, "A">>
NhsB == <<Marker, "B", "?", "k">>
NhsNoId == <<Marker, "?", "k">>
NhsOther == <<"/", "A">>

NhsAnchors ==
    { [href |-> h, kw |-> TRUE] : h \in {NhsA, NhsB, NhsNoId, NhsOther} }
      \cup { [href |-> NhsA, kw |-> FALSE] }

HjV1a == JobPrefix \o <<"a", "-", "v", "1">>
HjV1b == JobPrefix \o <<"b", "-", "v", "1">>
HjPlain == JobPrefix \o <<"a">>
HjOther == <<"/", "a", "-", "v", "2">>

HjAnchors ==
    { [href |-> h, kw |-> TRUE] : h \in {HjV1a, HjV1b, HjPlain, HjOther} }
      \cup { [href |-> HjV1a, kw |-> FALSE] }

NoAnchor == [href |-> <<>>, kw |-> FALSE]

\* the three listing pages: the two NHS_SEARCH_URLS and HEALTHJOBSUK_LIST_URL
HjList == NumNhsUrls + 1

ListUrls == 1..HjList

\* ------------------------------------------------------------ HTTP calls
NoReq == [kind |-> "none", timeout |-> {}]

\* requests.get(url, timeout=20)
Get(kind) == [kind |-> kind, timeout |-> {REQUEST_TIMEOUT}]

\* requests.post(url, json=data): no timeout argument
Post == [kind |-> "post", timeout |-> {}]

\* ------------------------------------------------------------- seen-set
\* {"nhs": [], "healthjobsuk": []}
EmptySeen == [nhs |-> <<>>, healthjobsuk |-> <<>>]

NoFile == [kind |-> "absent", data |-> EmptySeen]

VARIABLES
    file,       \* seen_jobs.json: absent, corrupt (not JSON), or a JSON object
    creds,      \* TELEGRAM_BOT_TOKEN and TELEGRAM_CHAT_ID are both set
    pc,         \* where the process is
    seen,       \* main's seen
    urlIdx,     \* the listing page at hand: 1, 2 (NHS), 3 (HealthJobsUK)
    anchors,    \* anchors of the page at hand already iterated
    cur,        \* the anchor whose detail page is being fetched
    nhs_jobs,   \* fetch_nhs_new_jobs's new_jobs
    hj_jobs,    \* fetch_healthjobsuk_new_jobs's new_jobs
    sent,       \* jobs of all_new the notify loop is through with
    req,        \* the HTTP call in flight
    loaded,     \* history: seen as load_seen returned it
    posts,      \* history: the jobs a POST was made for, this run
    listLog,    \* history: per listing page, the GETs of this run
    failedDetail, \* history: jobs whose detail GET failed, this run
    retry,      \* history: one job of the run before whose every detail GET failed
    saves,      \* history: calls of save_seen, this run
    prevDone,   \* history: the fixture is pinned and the run before ended normally
    fixture,    \* what is pinned of the web sites' responses
    href,       \* SpecHref: a HealthJobsUK link target
    job_id      \* SpecHref: the identifier extracted from it

vars ==
    << file, creds, pc, seen, urlIdx, anchors, cur, nhs_jobs, hj_jobs, sent, req,
       loaded, posts, listLog, failedDetail, retry, saves, prevDone, fixture,
       href, job_id >>

hrefVars == << href, job_id >>

\* a job of new_jobs: (full_url, details)
Job(source, url) == [source |-> source, url |-> url]

JobId(j) == IF j.source = "NHS" THEN NhsReSearch(j.url) ELSE HjJobId(j.url)

\* all_new = nhs_jobs + hj_jobs
\* (a variant that puts the HealthJobsUK jobs first)
MutAllNewHjFirst == hj_jobs \o nhs_jobs

all_new == nhs_jobs \o hj_jobs

\* seen["nhs"], seen["healthjobsuk"]
SeenOf(s, source) == IF source = "NHS" THEN s.nhs ELSE s.healthjobsuk

\* some job of this run's new jobs is the job j (same source, same identifier)
Found(j) ==
    \E k \in 1..Len(nhs_jobs \o hj_jobs) :
        /\ (nhs_jobs \o hj_jobs)[k].source = j.source
        /\ JobId((nhs_jobs \o hj_jobs)[k]) = JobId(j)

\* ---------------------------------------------------------- the fixture
\* With fixture.on the web sites are pinned: a listing page or a detail page
\* answers a GET the way it answered before.  Off, every GET is a new choice.
NoFixture(on) ==
    [ on |-> on,
      list |-> [u \in ListUrls |-> "?"],
      page |-> [u \in ListUrls |-> <<>>],
      closed |-> [u \in ListUrls |-> FALSE],
      detail |-> {} ]

Failed(o) == o # "ok"

FixtureAnchors ==
    Len(fixture.page[1]) + Len(fixture.page[2]) + Len(fixture.page[HjList])

ListingAnswers(u, o) ==
    fixture.on /\ fixture.list[u] # "?" => fixture.list[u] = (IF Failed(o) THEN "fail" ELSE "ok")

AnchorShown(u, a) ==
    /\ anchors < MaxLinks
    /\ fixture.on =>
          IF anchors < Len(fixture.page[u])
          THEN a = fixture.page[u][anchors + 1]
          ELSE ~fixture.closed[u] /\ FixtureAnchors < MaxFixtureLinks

PageEnds(u) == fixture.on => anchors = Len(fixture.page[u])

DetailAnswers(j, o) ==
    fixture.on => \A d \in fixture.detail : d.job = j => d.ok = ~Failed(o)

PinListing(u, o) ==
    IF fixture.on
    THEN [fixture EXCEPT !.list[u] = IF Failed(o) THEN "fail" ELSE "ok"]
    ELSE fixture

PinAnchor(u, a) ==
    IF fixture.on /\ anchors >= Len(fixture.page[u])
    THEN [fixture EXCEPT !.page[u] = Append(@, a)]
    ELSE fixture

PinPageEnd(u) ==
    IF fixture.on THEN [fixture EXCEPT !.closed[u] = TRUE] ELSE fixture

PinDetail(j, o) ==
    IF fixture.on
    THEN [fixture EXCEPT !.detail = @ \cup {[job |-> j, ok |-> ~Failed(o)]}]
    ELSE fixture

\* ------------------------------------------------------------------ Init
InitRun ==
    /\ file = NoFile
    /\ creds = FALSE
    /\ pc = "idle"
    /\ seen = EmptySeen
    /\ urlIdx = 1
    /\ anchors = 0
    /\ cur = NoAnchor
    /\ nhs_jobs = <<>>
    /\ hj_jobs = <<>>
    /\ sent = 0
    /\ req = NoReq
    /\ loaded = EmptySeen
    /\ posts = <<>>
    /\ listLog = [u \in ListUrls |-> <<>>]
    /\ failedDetail = {}
    /\ retry = {}
    /\ saves = 0
    /\ prevDone = FALSE

Init ==
    /\ InitRun
    /\ fixture = NoFixture(FALSE)
    /\ href = <<>>
    /\ job_id = <<>>

\* ------------------------------------------------------------- the run
\* the scheduler starts the program: the module is imported (lines 10-11)
\* and main() is called
StartRun ==
    /\ pc \in {"idle", "done", "crashed"}
    /\ pc' = "load"
    /\ creds' \in BOOLEAN
    /\ prevDone' = (fixture.on /\ pc = "done")
    /\ seen' = EmptySeen
    /\ urlIdx' = 1
    /\ anchors' = 0
    /\ cur' = NoAnchor
    /\ nhs_jobs' = <<>>
    /\ hj_jobs' = <<>>
    /\ sent' = 0
    /\ req' = NoReq
    /\ loaded' = EmptySeen
    /\ posts' = <<>>
    /\ listLog' = [u \in ListUrls |-> <<>>]
    /\ failedDetail' = {}
    /\ retry' \in {{}} \cup {{j} : j \in {x \in failedDetail : ~Found(x)}}
    /\ saves' = 0
    /\ UNCHANGED << file, fixture, hrefVars >>

\* load_seen(): the parsed file, the default when it is absent or not JSON
LoadResult == IF file.kind = "json" THEN file.data ELSE EmptySeen

load_seen ==
    /\ pc = "load"
    /\ seen' = LoadResult
    /\ loaded' = LoadResult
    /\ pc' = "nhs_get"
    /\ UNCHANGED << file, creds, urlIdx, anchors, cur, nhs_jobs, hj_jobs, sent, req,
                    posts, listLog, failedDetail, retry, saves, prevDone, fixture, hrefVars >>

\* ------------------------------------------------------ fetch_nhs_new_jobs
\* for search_url in NHS_SEARCH_URLS: the next URL, or return new_jobs
AfterNhsPage(idx) == IF idx < NumNhsUrls THEN "nhs_get" ELSE "hj_get"

\* r = requests.get(search_url, timeout=20)
nhs_search_get ==
    /\ pc = "nhs_get"
    /\ req' = Get("nhs_list")
    /\ pc' = "nhs_wait"
    /\ UNCHANGED << file, creds, seen, urlIdx, anchors, cur, nhs_jobs, hj_jobs, sent,
                    loaded, posts, listLog, failedDetail, retry, saves, prevDone, fixture,
                    hrefVars >>

\* the GET failed: print and continue with the next URL
\* (a variant that leaves the loop instead)
MutNhsSearchFailedReturns(idx) == "hj_get"

NhsSearchFailed(idx) == AfterNhsPage(idx)

nhs_search_response(o) ==
    /\ pc = "nhs_wait"
    /\ ListingAnswers(urlIdx, o)
    /\ req' = NoReq
    /\ listLog' = [listLog EXCEPT ![urlIdx] = Append(@, IF Failed(o) THEN "fail" ELSE "ok")]
    /\ fixture' = PinListing(urlIdx, o)
    /\ anchors' = 0
    /\ IF Failed(o)
       THEN /\ pc' = NhsSearchFailed(urlIdx)
            /\ urlIdx' = urlIdx + 1
       ELSE /\ pc' = "nhs_loop"
            /\ urlIdx' = urlIdx
    /\ UNCHANGED << file, creds, seen, cur, nhs_jobs, hj_jobs, sent, loaded, posts,
                    failedDetail, retry, saves, prevDone, hrefVars >>

\* lines 181-196: the anchor gets as far as parse_nhs_job_details
\* (a variant without the test of lines 191-192)
MutNhsNoSeenTest(a, s) ==
    /\ NhsHasMarker(a.href)
    /\ NhsReSearch(a.href) # <<>>
    /\ a.kw

NhsWanted(a, s) ==
    /\ NhsHasMarker(a.href)
    /\ NhsReSearch(a.href) # <<>>
    /\ ~InSeq(NhsReSearch(a.href), s.nhs)
    /\ a.kw

\* for a in soup.find_all("a", href=True): one anchor
nhs_anchor(a) ==
    /\ pc = "nhs_loop"
    /\ AnchorShown(urlIdx, a)
    /\ anchors' = anchors + 1
    /\ fixture' = PinAnchor(urlIdx, a)
    /\ IF NhsWanted(a, seen)
       THEN /\ req' = Get("nhs_detail")
            /\ cur' = a
            /\ pc' = "nhs_detail"
       ELSE UNCHANGED << req, cur, pc >>
    /\ UNCHANGED << file, creds, seen, urlIdx, nhs_jobs, hj_jobs, sent, loaded, posts,
                    listLog, failedDetail, retry, saves, prevDone, hrefVars >>

\* the page has no more anchors
nhs_page_end ==
    /\ pc = "nhs_loop"
    /\ PageEnds(urlIdx)
    /\ fixture' = PinPageEnd(urlIdx)
    /\ pc' = AfterNhsPage(urlIdx)
    /\ urlIdx' = urlIdx + 1
    /\ anchors' = 0
    /\ UNCHANGED << file, creds, seen, cur, nhs_jobs, hj_jobs, sent, req, loaded, posts,
                    listLog, failedDetail, retry, saves, prevDone, hrefVars >>

\* parse_nhs_job_details returns: None when the GET failed, the details else;
\* lines 199-203: skip the job, or mark it seen and append it
\* (a variant that marks the job seen before it looks at the details)
MutDetailFailMarksSeen(s, source, id, o) ==
    IF source = "NHS"
    THEN [s EXCEPT !.nhs = Append(@, id)]
    ELSE [s EXCEPT !.healthjobsuk = Append(@, id)]

SeenAfterDetail(s, source, id, o) ==
    IF Failed(o) THEN s
    ELSE IF source = "NHS"
         THEN [s EXCEPT !.nhs = Append(@, id)]
         ELSE [s EXCEPT !.healthjobsuk = Append(@, id)]

nhs_detail_response(o) ==
    /\ pc = "nhs_detail"
    /\ DetailAnswers(Job("NHS", cur.href), o)
    /\ fixture' = PinDetail(Job("NHS", cur.href), o)
    /\ req' = NoReq
    /\ cur' = NoAnchor
    /\ pc' = "nhs_loop"
    /\ seen' = SeenAfterDetail(seen, "NHS", NhsReSearch(cur.href), o)
    /\ nhs_jobs' = IF Failed(o) THEN nhs_jobs ELSE Append(nhs_jobs, Job("NHS", cur.href))
    /\ failedDetail' = IF Failed(o) THEN failedDetail \cup {Job("NHS", cur.href)}
                       ELSE failedDetail
    /\ UNCHANGED << file, creds, urlIdx, anchors, hj_jobs, sent, loaded, posts, listLog,
                    retry, saves, prevDone, hrefVars >>

\* ---------------------------------------------- fetch_healthjobsuk_new_jobs
\* r = requests.get(HEALTHJOBSUK_LIST_URL, timeout=20)
hj_list_get ==
    /\ pc = "hj_get"
    /\ req' = Get("hj_list")
    /\ pc' = "hj_wait"
    /\ UNCHANGED << file, creds, seen, urlIdx, anchors, cur, nhs_jobs, hj_jobs, sent,
                    loaded, posts, listLog, failedDetail, retry, saves, prevDone, fixture,
                    hrefVars >>

\* the GET failed: return [];  else iterate the anchors
hj_list_response(o) ==
    /\ pc = "hj_wait"
    /\ ListingAnswers(HjList, o)
    /\ req' = NoReq
    /\ listLog' = [listLog EXCEPT ![HjList] = Append(@, IF Failed(o) THEN "fail" ELSE "ok")]
    /\ fixture' = PinListing(HjList, o)
    /\ anchors' = 0
    /\ pc' = IF Failed(o) THEN "notify" ELSE "hj_loop"
    /\ UNCHANGED << file, creds, seen, urlIdx, cur, nhs_jobs, hj_jobs, sent, loaded,
                    posts, failedDetail, retry, saves, prevDone, hrefVars >>

\* lines 263-275: the anchor gets as far as parse_healthjobsuk_job_details
\* (a variant without the test of lines 274-275)
MutHjNoSeenTest(a, s) ==
    /\ StartsWithJobPrefix(a.href)
    /\ a.kw

HjWanted(a, s) ==
    /\ StartsWithJobPrefix(a.href)
    /\ a.kw
    /\ ~InSeq(HjJobId(a.href), s.healthjobsuk)

\* for a in soup.find_all("a", href=True): one anchor
hj_anchor(a) ==
    /\ pc = "hj_loop"
    /\ AnchorShown(HjList, a)
    /\ anchors' = anchors + 1
    /\ fixture' = PinAnchor(HjList, a)
    /\ IF HjWanted(a, seen)
       THEN /\ req' = Get("hj_detail")
            /\ cur' = a
            /\ pc' = "hj_detail"
       ELSE UNCHANGED << req, cur, pc >>
    /\ UNCHANGED << file, creds, seen, urlIdx, nhs_jobs, hj_jobs, sent, loaded, posts,
                    listLog, failedDetail, retry, saves, prevDone, hrefVars >>

\* the page has no more anchors: return new_jobs
hj_page_end ==
    /\ pc = "hj_loop"
    /\ PageEnds(HjList)
    /\ fixture' = PinPageEnd(HjList)
    /\ pc' = "notify"
    /\ anchors' = 0
    /\ UNCHANGED << file, creds, seen, urlIdx, cur, nhs_jobs, hj_jobs, sent, req, loaded,
                    posts, listLog, failedDetail, retry, saves, prevDone, hrefVars >>

hj_detail_response(o) ==
    /\ pc = "hj_detail"
    /\ DetailAnswers(Job("HealthJobsUK", cur.href), o)
    /\ fixture' = PinDetail(Job("HealthJobsUK", cur.href), o)
    /\ req' = NoReq
    /\ cur' = NoAnchor
    /\ pc' = "hj_loop"
    /\ seen' = SeenAfterDetail(seen, "HealthJobsUK", HjJobId(cur.href), o)
    /\ hj_jobs' = IF Failed(o) THEN hj_jobs
                  ELSE Append(hj_jobs, Job("HealthJobsUK", cur.href))
    /\ failedDetail' = IF Failed(o) THEN failedDetail \cup {Job("HealthJobsUK", cur.href)}
                       ELSE failedDetail
    /\ UNCHANGED << file, creds, urlIdx, anchors, nhs_jobs, sent, loaded, posts, listLog,
                    retry, saves, prevDone, hrefVars >>

\* -------------------------------------------------------------- main
\* what the call in flight can end in: a timeout only when it carries one
Outcomes(r) ==
    (IF r.kind = "post" THEN {"ok", "not_ok", "exception"}
     ELSE {"ok", "status", "transport"})
      \cup (IF r.timeout # {} THEN {"timeout"} ELSE {})

\* line 310: after the if/else over all_new (n jobs), save_seen(seen)
\* (a variant with save_seen inside the else branch)
MutSaveInElse(n) == IF n = 0 THEN "done" ELSE "save"

AfterNotify(n) == "save"

\* lines 297-308: the loop over all_new is through, or send_telegram(msg)
\* for the next job; without the credentials send_telegram prints and returns
main_notify ==
    /\ pc = "notify"
    /\ IF sent = Len(all_new)
       THEN /\ pc' = AfterNotify(Len(all_new))
            /\ UNCHANGED << sent, req, posts >>
       ELSE IF ~creds
            THEN /\ sent' = sent + 1
                 /\ UNCHANGED << pc, req, posts >>
            ELSE /\ req' = Post
                 /\ posts' = Append(posts, all_new[sent + 1])
                 /\ pc' = "post"
                 /\ sent' = sent
    /\ UNCHANGED << file, creds, seen, urlIdx, anchors, cur, nhs_jobs, hj_jobs, loaded,
                    listLog, failedDetail, retry, saves, prevDone, fixture, hrefVars >>

\* lines 71-75: the POST returned or raised; either way send_telegram returns
telegram_response(o) ==
    /\ pc = "post"
    /\ o \in Outcomes(req)
    /\ req' = NoReq
    /\ sent' = sent + 1
    /\ pc' = "notify"
    /\ UNCHANGED << file, creds, seen, urlIdx, anchors, cur, nhs_jobs, hj_jobs, loaded,
                    posts, listLog, failedDetail, retry, saves, prevDone, fixture, hrefVars >>

\* the server never answers a call that carries no timeout: the call blocks
never_answered ==
    /\ req # NoReq
    /\ req.timeout = {}
    /\ pc' = "hung"
    /\ UNCHANGED << file, creds, seen, urlIdx, anchors, cur, nhs_jobs, hj_jobs, sent, req,
                    loaded, posts, listLog, failedDetail, retry, saves, prevDone, fixture,
                    hrefVars >>

\* save_seen(seen): open(SEEN_FILE, "w") may raise, leaving the file as it
\* was; json.dump may raise half way, leaving a truncated file; nothing
\* catches either
SaveOutcomes == {"ok", "open_error", "write_error"}

FileAfterSave(f, s, o) ==
    CASE o = "ok" -> [kind |-> "json", data |-> s]
      [] o = "open_error" -> f
      [] o = "write_error" -> [kind |-> "corrupt", data |-> EmptySeen]

save_seen(o) ==
    /\ pc = "save"
    /\ saves' = saves + 1
    /\ file' = FileAfterSave(file, seen, o)
    /\ pc' = IF o = "ok" THEN "done" ELSE "crashed"
    /\ UNCHANGED << creds, seen, urlIdx, anchors, cur, nhs_jobs, hj_jobs, sent, req,
                    loaded, posts, listLog, failedDetail, retry, prevDone, fixture, hrefVars >>

Next ==
    \/ StartRun
    \/ load_seen
    \/ nhs_search_get
    \/ \E o \in Outcomes(req) : nhs_search_response(o)
    \/ \E a \in NhsAnchors : nhs_anchor(a)
    \/ nhs_page_end
    \/ \E o \in Outcomes(req) : nhs_detail_response(o)
    \/ hj_list_get
    \/ \E o \in Outcomes(req) : hj_list_response(o)
    \/ \E a \in HjAnchors : hj_anchor(a)
    \/ hj_page_end
    \/ \E o \in Outcomes(req) : hj_detail_response(o)
    \/ main_notify
    \/ \E o \in Outcomes(req) : telegram_response(o)
    \/ never_answered
    \/ \E o \in SaveOutcomes : save_seen(o)

\* every run of the program, over and over, against web sites that answer
\* each GET as they please
Spec == Init /\ [][Next]_vars

\* the same program against a pinned fixture
InitTwice ==
    /\ InitRun
    /\ fixture = NoFixture(TRUE)
    /\ href = <<>>
    /\ job_id = <<>>

SpecTwice == InitTwice /\ [][Next]_vars

\* ------------------------------------------------- identifier extraction
RECURSIVE Tails(_)
Tails(n) ==
    IF n = 0 THEN {<<>>}
    ELSE Tails(n - 1) \cup {Append(t, c) : t \in Tails(n - 1), c \in TailChars}

InitHref ==
    /\ InitRun
    /\ fixture = NoFixture(FALSE)
    /\ href \in {JobPrefix \o t : t \in Tails(MaxTail)}
    /\ job_id = <<>>

\* lines 271-272 on one candidate link target
extract_job_id ==
    /\ job_id = <<>>
    /\ href # <<>>
    /\ job_id' = HjJobId(href)
    /\ UNCHANGED << file, creds, pc, seen, urlIdx, anchors, cur, nhs_jobs, hj_jobs, sent,
                    req, loaded, posts, listLog, failedDetail, retry, saves, prevDone, fixture,
                    href >>

NextHref == extract_job_id

SpecHref == InitHref /\ [][NextHref]_vars

\* ================================================================ claims

\* identifiers of the jobs of a new_jobs list
IdsOf(jobs) == {JobId(jobs[k]) : k \in 1..Len(jobs)}

\* where the process is, by phase of main
NhsPcs == {"nhs_get", "nhs_wait", "nhs_loop", "nhs_detail"}

HjPcs == {"hj_get", "hj_wait", "hj_loop", "hj_detail"}

NotifyPcs == {"notify", "post", "hung"}

EndPcs == {"save", "done", "crashed"}

PostedIds(source) == {JobId(posts[k]) : k \in {l \in 1..Len(posts) : posts[l].source = source}}

Appended(source) == SeqSet(SeenOf(seen, source)) \ SeqSet(SeenOf(loaded, source))

\* C1: an identifier that is in a source's seen-set when the run loads it is
\* never returned as a new job by that source's extractor; and a run against
\* the pinned fixture that follows a run that ended normally finds no new job
\* and makes no POST.
C1_Idempotent ==
    /\ IdsOf(nhs_jobs) \cap SeqSet(loaded.nhs) = {}
    /\ IdsOf(hj_jobs) \cap SeqSet(loaded.healthjobsuk) = {}
    /\ prevDone => nhs_jobs = <<>> /\ hj_jobs = <<>> /\ posts = <<>> /\ sent = 0

\* a second run has gone through pages that show jobs the first run found
C1_Witness ==
    /\ prevDone
    /\ pc = "done"
    /\ \E k \in 1..Len(fixture.page[1]) :
          /\ fixture.page[1][k].kw
          /\ InSeq(NhsReSearch(fixture.page[1][k].href), loaded.nhs)
    /\ \E k \in 1..Len(fixture.page[HjList]) :
          /\ fixture.page[HjList][k].kw
          /\ InSeq(HjJobId(fixture.page[HjList][k].href), loaded.healthjobsuk)

\* C2 (as claimed): no run ends in an exception that leaves main.
C2_NoFatal == pc # "crashed"

\* a POST was made for the job j
Posted(j) ==
    \E k \in 1..Len(posts) : posts[k].source = j.source /\ JobId(posts[k]) = JobId(j)

\* C3 (as claimed): a job whose detail GET failed is skipped in this run: its
\* identifier is not added to the seen-set and no notification is sent for it.
C3_FailedIsSkipped ==
    \A j \in failedDetail :
        ~InSeq(JobId(j), SeenOf(seen, j.source)) /\ ~Posted(j)

\* the anchors that show the job j as a candidate with a keyword
ShowsNhs(a, j) == j.source = "NHS" /\ a.kw /\ NhsReSearch(a.href) = JobId(j)

ShowsHj(a, j) ==
    /\ j.source = "HealthJobsUK"
    /\ a.kw
    /\ StartsWithJobPrefix(a.href)
    /\ HjJobId(a.href) = JobId(j)

C3_State ==
    /\ \A j \in failedDetail :
          ~Found(j) =>
              /\ ~InSeq(JobId(j), SeenOf(seen, j.source))
              /\ ~InSeq(JobId(j), SeenOf(file.data, j.source))
              /\ ~Posted(j)
    /\ \A j \in retry :
          /\ ~InSeq(JobId(j), SeenOf(loaded, j.source))
          /\ ~Found(j) => ~InSeq(JobId(j), SeenOf(seen, j.source))

C3_Step ==
    /\ /\ pc \in {"nhs_detail", "hj_detail"}
       /\ pc' \in {"nhs_loop", "hj_loop"}
       /\ nhs_jobs' = nhs_jobs
       /\ hj_jobs' = hj_jobs
       => seen' = seen /\ posts' = posts /\ file' = file
    /\ \A j \in retry :
          /\ \A a \in NhsAnchors :
                nhs_anchor(a) /\ ShowsNhs(a, j) /\ ~Found(j) =>
                    pc' = "nhs_detail" /\ cur' = a /\ req' = Get("nhs_detail")
          /\ \A a \in HjAnchors :
                hj_anchor(a) /\ ShowsHj(a, j) /\ ~Found(j) =>
                    pc' = "hj_detail" /\ cur' = a /\ req' = Get("hj_detail")
          /\ nhs_detail_response("ok") /\ ShowsNhs(cur, j) =>
                nhs_jobs' = Append(nhs_jobs, Job("NHS", cur.href))
          /\ hj_detail_response("ok") /\ ShowsHj(cur, j) =>
                hj_jobs' = Append(hj_jobs, Job("HealthJobsUK", cur.href))

\* C3 (amended): a failed detail GET adds nothing to the seen-set and to the
\* new jobs; a job whose detail GETs of the run all failed is not in the
\* seen-set, not in the file and not notified; in the next run it is not in
\* the loaded seen-set, an anchor that shows it with a keyword gets its
\* detail page fetched (unless the run has found the job already), and a
\* fetch that succeeds appends it to the new jobs.
C3_Retry == [](C3_State) /\ [][C3_Step]_vars

\* a job that failed in the run before was fetched again and reported new
C3_Witness ==
    /\ pc = "done"
    /\ \E j \in retry : InSeq(j, nhs_jobs \o hj_jobs)

\* C4 (as claimed): at the end of a run the identifier of every job the run
\* found new is in the persisted seen-set, whatever its notification did.
C4_Persisted ==
    pc \in {"done", "crashed"} =>
        \A k \in 1..Len(nhs_jobs \o hj_jobs) :
            LET j == (nhs_jobs \o hj_jobs)[k]
            IN  file.kind = "json" /\ InSeq(JobId(j), SeenOf(file.data, j.source))

\* C5: a run goes load, NHS extractor, HealthJobsUK extractor, notifications,
\* save: what a phase does is done before the next starts; save_seen is called
\* once, as the last step, after every job of the run had its notification
\* attempted, and also when the run found no job.
C5_Order ==
    /\ pc = "load" => seen = EmptySeen /\ \A u \in ListUrls : listLog[u] = <<>>
    /\ pc \in NhsPcs \cup HjPcs \cup NotifyPcs \cup {"save"} =>
          /\ loaded = LoadResult
          /\ IsPrefix(loaded.nhs, seen.nhs)
          /\ IsPrefix(loaded.healthjobsuk, seen.healthjobsuk)
    /\ pc \in NhsPcs =>
          listLog[HjList] = <<>> /\ hj_jobs = <<>> /\ sent = 0 /\ posts = <<>>
    /\ pc \in HjPcs =>
          listLog[1] # <<>> /\ listLog[NumNhsUrls] # <<>> /\ sent = 0 /\ posts = <<>>
    /\ pc \in NotifyPcs \cup EndPcs => \A u \in ListUrls : listLog[u] # <<>>
    /\ pc \in EndPcs => sent = Len(nhs_jobs \o hj_jobs)
    /\ pc \in {"idle", "load"} \cup NhsPcs \cup HjPcs \cup NotifyPcs \cup {"save"} => saves = 0
    /\ pc \in {"done", "crashed"} => saves = 1

\* a run that found nothing new has saved the seen-set all the same
C5_Witness ==
    /\ pc = "done"
    /\ saves = 1
    /\ nhs_jobs \o hj_jobs = <<>>
    /\ loaded = EmptySeen
    /\ file = [kind |-> "json", data |-> EmptySeen]

\* C6 (as claimed): every HTTP call in flight carries the timeout, and no
\* call blocks for ever.
C6_Timeouts ==
    /\ req # NoReq => req.timeout = {REQUEST_TIMEOUT}
    /\ pc # "hung"

\* C7: the identifiers of each source's sequence are pairwise distinct, in
\* main's seen and in the file, at every point of every run.
C7_Unique ==
    /\ NoDup(seen.nhs)
    /\ NoDup(seen.healthjobsuk)
    /\ NoDup(file.data.nhs)
    /\ NoDup(file.data.healthjobsuk)

\* the same link came up twice in one run (its first detail GET failed, its
\* second passed), and another link of the same identifier after it
C7_Witness ==
    /\ pc = "done"
    /\ file.kind = "json"
    /\ Job("NHS", NhsA) \in failedDetail
    /\ InSeq(Job("NHS", NhsA), nhs_jobs)
    /\ Job("HealthJobsUK", HjV1b) \in failedDetail
    /\ InSeq(Job("HealthJobsUK", HjV1a), hj_jobs)
    /\ file.data.nhs = << <<"A">> >>
    /\ file.data.healthjobsuk = << <<"1">> >>

\* C8: with the credentials, the POSTs of a run are one per new job, in the
\* order NHS jobs then HealthJobsUK jobs, and once the loop is through the
\* identifiers appended to the seen-set are those of the jobs POSTed; without
\* them there is no POST.
C8_Posts ==
    /\ IsPrefix(posts, nhs_jobs \o hj_jobs)
    /\ NoDup(posts)
    /\ ~creds => posts = <<>>
    /\ creds => Len(posts) = (IF pc \in {"post", "hung"} THEN sent + 1 ELSE sent)
    /\ creds /\ pc \in EndPcs =>
          /\ posts = nhs_jobs \o hj_jobs
          /\ Appended("NHS") = PostedIds("NHS")
          /\ Appended("HealthJobsUK") = PostedIds("HealthJobsUK")

\* two NHS jobs and a HealthJobsUK job were POSTed, in that order
C8_Witness ==
    /\ creds
    /\ pc = "done"
    /\ Len(nhs_jobs) = 2
    /\ Len(hj_jobs) >= 1
    /\ posts = nhs_jobs \o hj_jobs

\* C9: a listing page whose GET failed is not fetched again in the run, and
\* the other listing pages are fetched all the same; when the HealthJobsUK
\* listing fails, the NHS jobs of the run are kept, notified, and in the file
\* once the run has ended normally.
C9_ListingIsolation ==
    /\ \A u \in ListUrls : Len(listLog[u]) <= 1
    /\ pc \in HjPcs \cup NotifyPcs \cup EndPcs =>
          \A u \in 1..NumNhsUrls : Len(listLog[u]) = 1
    /\ pc \in NotifyPcs \cup EndPcs => Len(listLog[HjList]) = 1
    /\ listLog[HjList] = <<"fail">> =>
          /\ hj_jobs = <<>>
          /\ IdsOf(nhs_jobs) = Appended("NHS")
          /\ pc \in EndPcs => sent = Len(nhs_jobs) /\ (creds => posts = nhs_jobs)
          /\ pc = "done" =>
                file.kind = "json" /\ IdsOf(nhs_jobs) \subseteq SeqSet(file.data.nhs)

\* the first NHS page and the HealthJobsUK listing failed; the job of the
\* second NHS page was notified and is in the file
C9_Witness ==
    /\ pc = "done"
    /\ creds
    /\ listLog[1] = <<"fail">>
    /\ listLog[NumNhsUrls] = <<"ok">>
    /\ listLog[HjList] = <<"fail">>
    /\ nhs_jobs # <<>>
    /\ posts = nhs_jobs
    /\ IdsOf(nhs_jobs) \subseteq SeqSet(file.data.nhs)

\* C10 (as claimed): the identifier of a candidate link target is the digits
\* of its version suffix, and the raw target exactly when it has no -v<digits>.
C10_VersionSuffix ==
    job_id # <<>> =>
        /\ VersionSuffix(href) # <<>> => job_id = VersionSuffix(href)
        /\ (job_id = href) <=> (VersionSuffix(href) = <<>>)

====
